---- MODULE Spec2Model ----
(***************************************************************************)
(* Model of scholarai.py: one invocation of the async generator Pipe.pipe  *)
(* (request assembly, the single HTTP exchange, the except clause) driven  *)
(* by a consumer that pulls items or closes the generator, together with   *)
(* the line transform add_prefix.                                          *)
(*                                                                         *)
(* Text is modelled as a sequence of one-character strings so that         *)
(* str.strip, str.startswith, str.find and slicing are computed.           *)
(***************************************************************************)
EXTENDS Integers, Sequences, FiniteSets, TLC

VARIABLES
    body,          \* the inbound request mapping (argument of pipe)
    valves,        \* self.valves (only STREAM matters to control flow)
    stream,        \* local `stream` of pipe
    payload,       \* local `payload` of pipe
    pc,            \* position of the pipe generator
    clientOpen,    \* the httpx.AsyncClient context is entered
    responseOpen,  \* the client.stream(...) response context is entered
    resp,          \* the upstream response: status code and JSON body
    fetched,       \* lines obtained so far from response.aiter_lines()
    out,           \* items the consumer has received, in order
    origin,        \* for each item of out, the yield statement it came from
    pending,       \* the consumer is awaiting __anext__ of the generator
    pulls,         \* number of __anext__ calls made by the consumer
    exc,           \* the exception raised inside the try block, if any
    escaped,       \* type of the exception that left the generator, if any
    cancelled      \* the consumer closed the generator (aclose)

vars == <<body, valves, stream, payload, pc, clientOpen, responseOpen, resp,
          fetched, out, origin, pending, pulls, exc, escaped, cancelled>>

----------------------------------------------------------------------------
(* Bounds and input alphabets *)

MaxLines == 3      \* longest upstream body, in lines
MaxPulls == 6      \* most __anext__ calls a consumer makes, counting those
                   \* on a generator that has already ended

DataColon == <<"d", "a", "t", "a", ":">>
DataPrefix == <<"d", "a", "t", "a", ":", " ">>
DoneBody == <<"[", "D", "O", "N", "E", "]">>
ErrorPrefix == <<"E", "r", "r", "o", "r", ":", " ">>

Whitespace == {" ", "\t"}

\* upstream lines: empty, whitespace-only, plain, padded, already prefixed
\* with and without the space, and the upstream's own end markers
Lines ==
    { <<>>,
      <<" ", "\t">>,
      <<"x">>,
      <<" ", "x">>,
      DataColon \o <<"x">>,
      DataPrefix \o <<"x">>,
      DoneBody,
      DataPrefix \o DoneBody }

ModelNames ==
    { <<"n", "s", ".", "m">>,
      <<"a", ".", "b", ".", "c">>,
      <<"n", "o">>,
      <<".", "m", ".">> }

Messages == <<"h", "i">>

Bodies ==
    { [model |-> m, messages |-> Messages] : m \in ModelNames }
    \cup { [model |-> m, messages |-> Messages, stream |-> s] :
             m \in ModelNames, s \in BOOLEAN }

Statuses == {200, 404, 500}
JsonBodies == { <<"o", "k">>, DataColon }

ConnectErrors == {"ConnectError", "ConnectTimeout"}
ReadErrors == {"ReadError", "ReadTimeout"}

NoExc == [type |-> "none", msg |-> <<>>]
NoResp == [status |-> 0, json |-> <<>>]

----------------------------------------------------------------------------
(* Pure helpers, as the Python computes them *)

StartsWith(s, p) == Len(s) >= Len(p) /\ SubSeq(s, 1, Len(p)) = p

\* str.strip(): drop leading and trailing whitespace
Strip(s) ==
    LET keep == {i \in 1..Len(s) : s[i] \notin Whitespace}
    IN IF keep = {} THEN <<>>
       ELSE LET lo == CHOOSE i \in keep : \A j \in keep : i <= j
                hi == CHOOSE i \in keep : \A j \in keep : i >= j
            IN SubSeq(s, lo, hi)

\* variant: highest index (str.rfind)
Find_Last(s, c) ==
    LET hits == {i \in 1..Len(s) : s[i] = c}
    IN IF hits = {} THEN -1
       ELSE (CHOOSE i \in hits : \A j \in hits : i >= j) - 1

\* str.find(c): lowest 0-based index of c, or -1
Find(s, c) ==
    LET hits == {i \in 1..Len(s) : s[i] = c}
    IN IF hits = {} THEN -1
       ELSE (CHOOSE i \in hits : \A j \in hits : i <= j) - 1

\* s[k:] for k >= 0
Slice(s, k) == SubSeq(s, k + 1, Len(s))

\* variant: the request's own field is ignored
StreamFlag_ValvesOnly(b, v) == v.STREAM

\* body.get("stream", self.valves.STREAM)
StreamFlag(b, v) == IF "stream" \in DOMAIN b THEN b.stream ELSE v.STREAM

\* body["model"][body["model"].find(".") + 1 :]
ModelId(m) == Slice(m, Find(m, ".") + 1)

\* {**body, "model": model_id}
Payload(b) == [b EXCEPT !.model = ModelId(b.model)]

\* `not line.strip()`
IsBlank(line) == Strip(line) = <<>>

\* variant: the marker is prepended unconditionally
Prefixed_Always(line) == DataPrefix \o line

\* line if line.startswith("data:") else f"data: {line}"
Prefixed(line) == IF StartsWith(line, DataColon) THEN line ELSE DataPrefix \o line

\* variant: the sentinel without its space
DONE_NoSpace == DataColon \o DoneBody

\* the literal yielded after the loop
DONE == DataPrefix \o DoneBody

\* response.raise_for_status() passes
IsSuccess(code) == code >= 200 /\ code < 300

\* variant: only connection errors are caught
IsRequestError_ConnectOnly(t) == t \in ConnectErrors

\* `except httpx.RequestError`: transport errors derive from RequestError,
\* HTTPStatusError derives from HTTPError only
IsRequestError(t) == t \in ConnectErrors \cup ReadErrors

\* str(e)
Message(t) == IF t \in {"ConnectTimeout", "ReadTimeout"} THEN <<"t", "o">> ELSE <<>>

----------------------------------------------------------------------------
Init ==
    /\ body \in Bodies
    /\ valves \in [STREAM : BOOLEAN]
    /\ stream = FALSE
    /\ payload = <<>>
    /\ pc = "start"
    /\ clientOpen = FALSE
    /\ responseOpen = FALSE
    /\ resp = NoResp
    /\ fetched = <<>>
    /\ out = <<>>
    /\ origin = <<>>
    /\ pending = FALSE
    /\ pulls = 0
    /\ exc = NoExc
    /\ escaped = "none"
    /\ cancelled = FALSE

\* variant: the client is not scoped by a block and stays open
Release_ResponseOnly ==
    /\ responseOpen' = FALSE
    /\ UNCHANGED clientOpen

\* leaving the `async with` blocks: response and client are closed
Release ==
    /\ responseOpen' = FALSE
    /\ clientOpen' = FALSE

\* an exception raised inside the try block unwinds both `async with`
\* blocks and reaches the except clause
Raise(t) ==
    /\ exc' = [type |-> t, msg |-> Message(t)]
    /\ Release
    /\ pc' = "except"

\* an item is handed to the consumer at a yield; the generator suspends
Yield(item, from) ==
    /\ out' = Append(out, item)
    /\ origin' = Append(origin, from)
    /\ pending' = FALSE

\* consumer: __anext__ on the generator
Pull ==
    /\ ~pending
    /\ pc # "done"
    /\ pending' = TRUE
    /\ pulls' = pulls + 1
    /\ UNCHANGED <<body, valves, stream, payload, pc, clientOpen, responseOpen,
                   resp, fetched, out, origin, exc, escaped, cancelled>>

\* variant: a pull on an ended generator runs the line loop again
PullAfterDone_Restart ==
    /\ ~pending
    /\ pc = "done"
    /\ pulls < MaxPulls
    /\ pulls' = pulls + 1
    /\ pending' = TRUE
    /\ pc' = IF stream THEN "iter" ELSE "done"
    /\ UNCHANGED <<body, valves, stream, payload, clientOpen, responseOpen,
                   resp, fetched, out, origin, exc, escaped, cancelled>>

\* consumer: __anext__ on a generator that has returned, raised or been
\* closed; it raises StopAsyncIteration at once and runs no code of pipe
PullAfterDone ==
    /\ ~pending
    /\ pc = "done"
    /\ pulls < MaxPulls
    /\ pulls' = pulls + 1
    /\ UNCHANGED <<body, valves, stream, payload, pc, clientOpen, responseOpen,
                   resp, fetched, out, origin, pending, exc, escaped, cancelled>>

\* consumer: aclose() while the generator is suspended; GeneratorExit is
\* thrown at the yield, unwinds the `async with` blocks and is not caught
Close ==
    /\ ~pending
    /\ pc # "done"
    /\ Release
    /\ pc' = "done"
    /\ cancelled' = TRUE
    /\ UNCHANGED <<body, valves, stream, payload, resp, fetched, out, origin,
                   pending, pulls, exc, escaped>>

\* pipe, headers .. payload
BuildRequest ==
    /\ pending
    /\ pc = "start"
    /\ stream' = StreamFlag(body, valves)
    /\ payload' = Payload(body)
    /\ pc' = "client"
    /\ UNCHANGED <<body, valves, clientOpen, responseOpen, resp, fetched, out,
                   origin, pending, pulls, exc, escaped, cancelled>>

\* async with httpx.AsyncClient(timeout=60.0) as client
OpenClient ==
    /\ pending
    /\ pc = "client"
    /\ clientOpen' = TRUE
    /\ pc' = IF stream THEN "stream" ELSE "post"
    /\ UNCHANGED <<body, valves, stream, payload, responseOpen, resp, fetched,
                   out, origin, pending, pulls, exc, escaped, cancelled>>

\* async with client.stream("POST", ...) as response
SendStream ==
    /\ pending
    /\ pc = "stream"
    /\ \/ /\ \E s \in Statuses : resp' = [status |-> s, json |-> <<>>]
          /\ responseOpen' = TRUE
          /\ pc' = "status"
          /\ UNCHANGED <<clientOpen, exc>>
       \/ /\ \E t \in ConnectErrors : Raise(t)
          /\ UNCHANGED resp
    /\ UNCHANGED <<body, valves, stream, payload, fetched, out, origin,
                   pending, pulls, escaped, cancelled>>

\* resp = await client.post(...)
SendPost ==
    /\ pending
    /\ pc = "post"
    /\ \/ /\ \E s \in Statuses, j \in JsonBodies : resp' = [status |-> s, json |-> j]
          /\ pc' = "status"
          /\ UNCHANGED <<clientOpen, responseOpen, exc>>
       \/ /\ \E t \in ConnectErrors \cup ReadErrors : Raise(t)
          /\ UNCHANGED resp
    /\ UNCHANGED <<body, valves, stream, payload, fetched, out, origin,
                   pending, pulls, escaped, cancelled>>

\* response.raise_for_status() / resp.raise_for_status()
RaiseForStatus ==
    /\ pending
    /\ pc = "status"
    /\ IF IsSuccess(resp.status)
       THEN /\ pc' = IF stream THEN "iter" ELSE "json"
            /\ UNCHANGED <<clientOpen, responseOpen, exc>>
       ELSE Raise("HTTPStatusError")
    /\ UNCHANGED <<body, valves, stream, payload, resp, fetched, out, origin,
                   pending, pulls, escaped, cancelled>>

\* yield resp.json()
YieldJson ==
    /\ pending
    /\ pc = "json"
    /\ Yield(resp.json, "json")
    /\ pc' = "after_json"
    /\ UNCHANGED <<body, valves, stream, payload, clientOpen, responseOpen,
                   resp, fetched, pulls, exc, escaped, cancelled>>

\* variant: a producer that reads ahead without waiting for the consumer
NextLine_Eager ==
    /\ pc = "iter"
    /\ Len(fetched) < MaxLines
    /\ \E line \in Lines :
          /\ fetched' = Append(fetched, line)
          /\ IF IsBlank(line)
             THEN UNCHANGED <<out, origin, pending>>
             ELSE Yield(Prefixed(line), "line")
    /\ UNCHANGED <<body, valves, stream, payload, pc, clientOpen, responseOpen,
                   resp, pulls, exc, escaped, cancelled>>

\* one iteration of add_prefix's loop: the next upstream line is skipped
\* when blank, else prefixed, yielded by add_prefix and re-yielded by pipe
NextLine ==
    /\ pending
    /\ pc = "iter"
    /\ Len(fetched) < MaxLines
    /\ \E line \in Lines :
          /\ fetched' = Append(fetched, line)
          /\ IF IsBlank(line)
             THEN UNCHANGED <<out, origin, pending>>
             ELSE Yield(Prefixed(line), "line")
    /\ UNCHANGED <<body, valves, stream, payload, pc, clientOpen, responseOpen,
                   resp, pulls, exc, escaped, cancelled>>

\* the upstream iterator is exhausted: add_prefix yields the sentinel
EndOfLines ==
    /\ pending
    /\ pc = "iter"
    /\ Yield(DONE, "sentinel")
    /\ pc' = "after_done"
    /\ UNCHANGED <<body, valves, stream, payload, clientOpen, responseOpen,
                   resp, fetched, pulls, exc, escaped, cancelled>>

\* reading the streamed body fails: the error leaves add_prefix and the
\* `async with` blocks
ReadFails ==
    /\ pending
    /\ pc = "iter"
    /\ \E t \in ReadErrors : Raise(t)
    /\ UNCHANGED <<body, valves, stream, payload, resp, fetched, out, origin,
                   pending, pulls, escaped, cancelled>>

\* variant: the error is reported and the line loop is resumed
HandleError_Resume ==
    /\ pending
    /\ pc = "except"
    /\ Yield(ErrorPrefix \o exc.msg, "error")
    /\ pc' = IF stream THEN "iter" ELSE "after_error"
    /\ UNCHANGED <<body, valves, stream, payload, clientOpen, responseOpen,
                   resp, fetched, pulls, exc, escaped, cancelled>>

\* except httpx.RequestError as e: yield f"Error: {e}"
HandleError ==
    /\ pending
    /\ pc = "except"
    /\ IF IsRequestError(exc.type)
       THEN /\ Yield(ErrorPrefix \o exc.msg, "error")
            /\ pc' = "after_error"
            /\ UNCHANGED escaped
       ELSE /\ escaped' = exc.type
            /\ pending' = FALSE
            /\ pc' = "done"
            /\ UNCHANGED <<out, origin>>
    /\ UNCHANGED <<body, valves, stream, payload, clientOpen, responseOpen,
                   resp, fetched, pulls, exc, cancelled>>

\* resumed after its last yield, the generator leaves the `async with`
\* blocks and returns (StopAsyncIteration)
Return ==
    /\ pending
    /\ pc \in {"after_done", "after_json", "after_error"}
    /\ Release
    /\ pc' = "done"
    /\ pending' = FALSE
    /\ UNCHANGED <<body, valves, stream, payload, resp, fetched, out, origin,
                   pulls, exc, escaped, cancelled>>

Next ==
    \/ Pull
    \/ PullAfterDone
    \/ Close
    \/ BuildRequest
    \/ OpenClient
    \/ SendStream
    \/ SendPost
    \/ RaiseForStatus
    \/ YieldJson
    \/ NextLine
    \/ EndOfLines
    \/ ReadFails
    \/ HandleError
    \/ Return

Spec == Init /\ [][Next]_vars

----------------------------------------------------------------------------
(* Vocabulary of the properties, stated independently of the operators    *)
(* above                                                                   *)

Sentinel == <<"d", "a", "t", "a", ":", " ", "[", "D", "O", "N", "E", "]">>
NetworkErrors == {"ConnectError", "ConnectTimeout", "ReadError", "ReadTimeout"}

Last(s) == s[Len(s)]
Front(s) == SubSeq(s, 1, Len(s) - 1)

AllWhitespace(s) == \A i \in 1..Len(s) : s[i] \in {" ", "\t"}
BeginsWithData(s) ==
    /\ Len(s) >= 5
    /\ s[1] = "d" /\ s[2] = "a" /\ s[3] = "t" /\ s[4] = "a" /\ s[5] = ":"

RECURSIVE Normalized(_)
Normalized(lines) ==
    IF lines = <<>> THEN <<>>
    ELSE LET L == Head(lines)
         IN (IF AllWhitespace(L) THEN <<>>
             ELSE IF BeginsWithData(L) THEN <<L>>
             ELSE << <<"d", "a", "t", "a", ":", " ">> \o L >>)
            \o Normalized(Tail(lines))

\* the request selects streaming: its `stream` field, else the STREAM valve
StreamingRequested ==
    IF "stream" \in DOMAIN body THEN body.stream ELSE valves.STREAM

\* the upstream lines were exhausted and the appended sentinel was yielded
SentinelEmitted == Len(origin) > 0 /\ Last(origin) = "sentinel"

\* the request has been assembled
Built == pc # "start" /\ DOMAIN payload # {}

\* a network failure was raised and the except clause has run
FailureReported == exc.type \in NetworkErrors /\ pc \in {"after_error", "done"}

\* text after the first "." of m, or m when it has none
AfterFirstDot(m) ==
    IF \E i \in 1..Len(m) : m[i] = "."
    THEN LET d == CHOOSE i \in 1..Len(m) :
                     m[i] = "." /\ \A j \in 1..(i - 1) : m[j] # "."
         IN [k \in 1..(Len(m) - d) |-> m[d + k]]
    ELSE m

NonBlankCount(lines) == Cardinality({i \in 1..Len(lines) : ~AllWhitespace(lines[i])})

----------------------------------------------------------------------------
C2_StartsWithDataSpace ==
    \A i \in 1..Len(out) :
        origin[i] = "line" => StartsWith(out[i], <<"d", "a", "t", "a", ":", " ">>)

\* C3 as stated: the drained output ends with the sentinel, the item before
\* it is not "data: [DONE]", and empty input gives exactly the sentinel.
C3_Original ==
    SentinelEmitted =>
        /\ Last(out) = Sentinel
        /\ (Len(out) >= 2 => out[Len(out) - 1] # Sentinel)
        /\ (fetched = <<>> => out = <<Sentinel>>)

\* C3 (amended): the drained output ends with the sentinel, which add_prefix
\* appends exactly once after the normalized lines (so empty input gives
\* exactly the sentinel); the item before it equals "data: [DONE]" only when
\* the last non-blank upstream line was "[DONE]" or "data: [DONE]".
C3_SentinelAppendedOnce ==
    SentinelEmitted =>
        /\ Last(out) = Sentinel
        /\ Len(out) = Len(Normalized(fetched)) + 1
        /\ Cardinality({i \in 1..Len(origin) : origin[i] = "sentinel"}) = 1
        /\ (fetched = <<>> => out = <<Sentinel>>)
        /\ (Len(out) >= 2 /\ out[Len(out) - 1] = Sentinel) =>
              \E i \in 1..Len(fetched) :
                  /\ fetched[i] \in {<<"[", "D", "O", "N", "E", "]">>, Sentinel}
                  /\ \A j \in (i + 1)..Len(fetched) : AllWhitespace(fetched[j])

C3_Witness ==
    /\ SentinelEmitted
    /\ Len(out) = 3
    /\ out[2] = Sentinel
    /\ out[1] # Sentinel

\* C4 as stated: after a network failure the whole output is one item that
\* begins with "Error: ".
C4_Original ==
    FailureReported => (Len(out) = 1 /\ StartsWith(out[1], ErrorPrefix))

\* C4 (amended): after a network failure at any point of the exchange the
\* output ends with exactly one item beginning with "Error: ", preceded by
\* the normalized lines already yielded; the whole output is that one item
\* when no line had been yielded before the failure, and nothing escapes.
C4_ErrorItemEndsOutput ==
    FailureReported =>
        /\ Len(out) >= 1
        /\ Last(origin) = "error"
        /\ StartsWith(Last(out), <<"E", "r", "r", "o", "r", ":", " ">>)
        /\ Cardinality({i \in 1..Len(origin) : origin[i] = "error"}) = 1
        /\ Front(out) = Normalized(fetched)
        /\ (NonBlankCount(fetched) = 0 => Len(out) = 1)
        /\ (~StreamingRequested => Len(out) = 1)
        /\ escaped = "none"

C4_Witness ==
    /\ FailureReported
    /\ pc = "done"
    /\ ~cancelled
    /\ exc.type = "ReadTimeout"
    /\ Len(out) = 3

\* C5: a non-2xx status is reported like a network error: one item
\* "Error: <message>", the sequence ends, and no exception escapes.
C5_StatusErrorReported ==
    (exc.type = "HTTPStatusError" /\ pc = "done") =>
        /\ escaped = "none"
        /\ Len(out) = 1
        /\ StartsWith(out[1], ErrorPrefix)

\* C6: in non-streaming mode with a successful response the output is
\* exactly the decoded JSON body, with no prefix and no sentinel; a `stream`
\* field of the request takes precedence over the STREAM valve.
C6_NonStreaming ==
    /\ Built => stream = StreamingRequested
    /\ (Built /\ "stream" \in DOMAIN body) => stream = body.stream
    /\ (~StreamingRequested /\ IsSuccess(resp.status)
          /\ pc \in {"after_json", "done"}) =>
            /\ out = <<resp.json>>
            /\ origin = <<"json">>
            /\ fetched = <<>>

C6_Witness ==
    /\ "stream" \in DOMAIN body
    /\ ~body.stream
    /\ valves.STREAM
    /\ pc = "done"
    /\ ~cancelled
    /\ out = <<DataColon>>

\* C7: the outbound payload equals the inbound mapping on every key but
\* `model`, whose value is the inbound model after its first "." (the whole
\* string when it has none).
C7_ModelRewrite ==
    Built =>
        /\ DOMAIN payload = DOMAIN body
        /\ \A k \in DOMAIN body \ {"model"} : payload[k] = body[k]
        /\ payload.model = AfterFirstDot(body.model)
        /\ (body.model = <<"n", "s", ".", "m">> => payload.model = <<"m">>)
        /\ (body.model = <<"a", ".", "b", ".", "c">> => payload.model = <<"b", ".", "c">>)
        /\ (body.model = <<"n", "o">> => payload.model = <<"n", "o">>)

C7_Witness ==
    /\ Built
    /\ body.model = <<"a", ".", "b", ".", "c">>
    /\ payload.model = <<"b", ".", "c">>
    /\ "stream" \in DOMAIN payload

\* C8: a terminated invocation holds neither the client nor the response,
\* whether it ended normally, by an error or by the consumer closing it.
C8_ReleasedOnExit ==
    /\ pc = "done" => (~clientOpen /\ ~responseOpen)
    /\ responseOpen => clientOpen

C8_Witness ==
    /\ pc = "done"
    /\ cancelled
    /\ stream
    /\ Len(out) = 2
    /\ Last(origin) = "line"
    /\ ~clientOpen

\* C9: an "Error: " item is the last item of the output, and an output that
\* contains it never contains the appended sentinel.
C9_ErrorIsLast ==
    \A i \in 1..Len(origin) :
        origin[i] = "error" =>
            /\ i = Len(origin)
            /\ \A j \in 1..Len(origin) : origin[j] # "sentinel"

C9_Witness ==
    /\ pc = "done"
    /\ origin = <<"line", "line", "error">>
    /\ out[2] = Sentinel

\* C10: a line is fetched from the upstream iterator only while a consumer
\* pull is pending, so the non-blank lines fetched never outnumber the pulls
\* and every one of them has been handed over before the next is fetched.
C10_PullBased ==
    /\ [](NonBlankCount(fetched) <= pulls)
    /\ [](Len(out) <= pulls)
    /\ [][fetched' # fetched => pending]_vars

C10_Witness ==
    /\ pc = "iter"
    /\ ~pending
    /\ pulls = 2
    /\ Len(fetched) = 3
    /\ NonBlankCount(fetched) = 2

\* the appended sentinel is among the items handed over
HasSentinel == \E i \in 1..Len(origin) : origin[i] = "sentinel"

\* C11: the appended sentinel is emitted only in the step in which the
\* pulled generator finds the upstream lines exhausted without failure; once
\* the invocation has ended (in particular by the consumer closing it before
\* exhaustion) no further pull emits anything, so a cancelled run without
\* the sentinel never obtains it.
C11_SentinelOnlyWhenDrained ==
    /\ [](HasSentinel => (stream /\ exc.type = "none" /\ Last(origin) = "sentinel"
                            /\ Len(out) = NonBlankCount(fetched) + 1))
    /\ [](cancelled => pc = "done")
    /\ [][(~HasSentinel /\ HasSentinel') =>
            (pending /\ pc = "iter" /\ ~cancelled /\ fetched' = fetched)]_vars
    /\ [][pc = "done" =>
            (pc' = "done" /\ out' = out /\ origin' = origin /\ fetched' = fetched
               /\ ~pending')]_vars

C11_Witness ==
    /\ cancelled
    /\ stream
    /\ pc = "done"
    /\ origin = <<"line">>
    /\ ~HasSentinel
    /\ pulls >= Len(out) + 2

====
